---- MODULE Spec2Model ----
(***************************************************************************)
(* Model of cleaned_inventory_system.py: one global dictionary            *)
(* _stock_data (item name -> quantity), mutated by add_item and           *)
(* remove_item, read by get_qty and check_low_items, and persisted by     *)
(* load_data / save_data through a JSON file that is written to           *)
(* "<file>.tmp" and renamed over the target.                              *)
(*                                                                         *)
(* Python values are records [ty, n, s]; a dict is the sequence of its    *)
(* [k, v] entries in insertion order; a file is [exists, text] where      *)
(* text is the sequence of JSON tokens it holds.                          *)
(***************************************************************************)
EXTENDS Integers, Sequences, FiniteSets, TLC

VARIABLES
    _stock_data,   \* the module-level dict: sequence of [k |-> name, v |-> qty]
    logs,          \* the caller's log list handed to add_item
    fs,            \* the file system: path -> [exists, text]
    pc,            \* where the (single-threaded) process is: [at, file]
    result         \* what the last completed call gave its caller / logged

vars == <<_stock_data, logs, fs, pc, result>>

---------------------------------------------------------------------------
(* Bounds of the model *)

MaxQty == 2        \* add_item is only called while the total stays <= MaxQty
MaxLog == 2        \* the caller's log list is passed while shorter than this
MaxEntries == 2    \* members of the JSON objects that LoadSpec reads

---------------------------------------------------------------------------
(* Python values *)

PyInt(n) == [ty |-> "int", n |-> n, s |-> ""]
PyBool(b) == [ty |-> "bool", n |-> IF b THEN 1 ELSE 0, s |-> ""]
PyFloat(h) == [ty |-> "float", n |-> h, s |-> ""]     \* the float h/2
PyInf == [ty |-> "float", n |-> 0, s |-> "inf"]
PyNaN == [ty |-> "float", n |-> 0, s |-> "nan"]
PyStr(s) == [ty |-> "str", n |-> 0, s |-> s]
PyNone == [ty |-> "none", n |-> 0, s |-> ""]
PyList == [ty |-> "list", n |-> 0, s |-> ""]

(* isinstance(v, int): bool is a subclass of int *)
isinstance_int(v) == v.ty \in {"int", "bool"}
isinstance_str(v) == v.ty = "str"

(* the guard "not isinstance(item, str) or not item" *)
bad_item(item) == ~isinstance_str(item) \/ item.s = ""

(* str(v) as used by the f-string of the log entry *)
str(v) ==
    CASE v.ty = "bool" -> (IF v.n = 1 THEN "True" ELSE "False")
      [] v.ty = "int" -> ToString(v.n)
      [] OTHER -> v.s

(* int(v): [exc, n]; exc = "none" when the conversion succeeds *)
ParseRange == -(MaxQty + 1) .. (MaxQty + 1)

int_of_str(s) ==
    LET hits == {n \in ParseRange :
                    \/ s = ToString(n)
                    \/ s = " " \o ToString(n) \o " "
                    \/ (n >= 0 /\ s = "+" \o ToString(n))}
    IN IF hits = {} THEN [exc |-> "ValueError", n |-> 0]
       ELSE [exc |-> "none", n |-> CHOOSE n \in hits : TRUE]

(* int() of the float h/2 truncates towards zero *)
trunc(h) == IF h >= 0 THEN h \div 2 ELSE -((-h) \div 2)

int(v) ==
    CASE v.ty \in {"int", "bool"} -> [exc |-> "none", n |-> v.n]
      [] v.ty = "float" ->
            (IF v.s = "inf" THEN [exc |-> "OverflowError", n |-> 0]
             ELSE IF v.s = "nan" THEN [exc |-> "ValueError", n |-> 0]
             ELSE [exc |-> "none", n |-> trunc(v.n)])
      [] v.ty = "str" -> int_of_str(v.s)
      [] OTHER -> [exc |-> "TypeError", n |-> 0]

---------------------------------------------------------------------------
(* Python dict, as the sequence of its entries in insertion order *)

Keys(d) == {d[i].k : i \in 1..Len(d)}
Has(d, k) == k \in Keys(d)
IndexOf(d, k) == CHOOSE i \in 1..Len(d) : d[i].k = k
Get(d, k, default) == IF Has(d, k) THEN d[IndexOf(d, k)].v ELSE default
Set(d, k, v) ==
    IF Has(d, k) THEN [d EXCEPT ![IndexOf(d, k)].v = v]
    ELSE Append(d, [k |-> k, v |-> v])
Pop(d, k) ==
    IF Has(d, k)
    THEN LET i == IndexOf(d, k)
         IN SubSeq(d, 1, i - 1) \o SubSeq(d, i + 1, Len(d))
    ELSE d

---------------------------------------------------------------------------
(* What a call hands back: the exception it raises (exc), the value it    *)
(* returns (val, names) and the branch the module logger recorded.        *)

Outcome(op, exc, val, names, logged) ==
    [op |-> op, exc |-> exc, val |-> val, names |-> names, logged |-> logged]

Raise(op, exc) == Outcome(op, exc, 0, <<>>, "none")
Return(op, val, names, logged) == Outcome(op, "none", val, names, logged)

---------------------------------------------------------------------------
(* add_item *)

now_str == "2026-01-01T00:00:00"

log_entry(item, qty) == now_str \o ": Added " \o str(qty) \o " of " \o item.s

add_update_keep_zero(d, item, qty) ==
    LET current == Get(d, item, 0)
        new_qty == current + qty
    IN IF new_qty < 0 THEN Pop(d, item) ELSE Set(d, item, new_qty)

add_update_overwrite(d, item, qty) ==
    IF qty <= 0 THEN Pop(d, item) ELSE Set(d, item, qty)

add_update(d, item, qty) ==
    LET current == Get(d, item, 0)
        new_qty == current + qty
    IN IF new_qty <= 0 THEN Pop(d, item) ELSE Set(d, item, new_qty)

add_item_log_first(item, qty, with_logs) ==
    /\ pc.at = "idle"
    /\ with_logs => Len(logs) < MaxLog
    /\ logs' = IF with_logs THEN Append(logs, log_entry(item, qty)) ELSE logs
    /\ IF bad_item(item) \/ ~isinstance_int(qty)
       THEN /\ result' = Raise("add_item", "ValueError")
            /\ UNCHANGED <<_stock_data, fs, pc>>
       ELSE /\ Get(_stock_data, item.s, 0) + qty.n <= MaxQty
            /\ _stock_data' = add_update(_stock_data, item.s, qty.n)
            /\ result' = Return("add_item", 0, <<>>, "info")
            /\ UNCHANGED <<fs, pc>>

add_item(item, qty, with_logs) ==
    /\ pc.at = "idle"
    /\ with_logs => Len(logs) < MaxLog
    /\ IF bad_item(item)
       THEN /\ result' = Raise("add_item", "ValueError")
            /\ UNCHANGED <<_stock_data, logs, fs, pc>>
       ELSE IF ~isinstance_int(qty)
       THEN /\ result' = Raise("add_item", "ValueError")
            /\ UNCHANGED <<_stock_data, logs, fs, pc>>
       ELSE /\ Get(_stock_data, item.s, 0) + qty.n <= MaxQty
            /\ _stock_data' = add_update(_stock_data, item.s, qty.n)
            /\ logs' = IF with_logs THEN Append(logs, log_entry(item, qty))
                       ELSE logs
            /\ result' = Return("add_item", 0, <<>>, "info")
            /\ UNCHANGED <<fs, pc>>

---------------------------------------------------------------------------
(* remove_item *)

remove_update_strict(d, item, qty) ==
    IF Get(d, item, 0) < qty THEN Pop(d, item)
    ELSE Set(d, item, Get(d, item, 0) - qty)

remove_update(d, item, qty) ==
    IF Get(d, item, 0) <= qty THEN Pop(d, item)
    ELSE Set(d, item, Get(d, item, 0) - qty)

remove_item_lookup_first(item, qty) ==
    /\ pc.at = "idle"
    /\ IF bad_item(item)
       THEN /\ result' = Raise("remove_item", "ValueError")
            /\ UNCHANGED <<_stock_data, logs, fs, pc>>
       ELSE IF ~Has(_stock_data, item.s)
       THEN /\ result' = Raise("remove_item", "KeyError")
            /\ UNCHANGED <<_stock_data, logs, fs, pc>>
       ELSE IF ~isinstance_int(qty) \/ qty.n <= 0
       THEN /\ result' = Raise("remove_item", "ValueError")
            /\ UNCHANGED <<_stock_data, logs, fs, pc>>
       ELSE /\ _stock_data' = remove_update(_stock_data, item.s, qty.n)
            /\ result' = Return("remove_item", 0, <<>>, "info")
            /\ UNCHANGED <<logs, fs, pc>>

remove_item(item, qty) ==
    /\ pc.at = "idle"
    /\ IF bad_item(item)
       THEN /\ result' = Raise("remove_item", "ValueError")
            /\ UNCHANGED <<_stock_data, logs, fs, pc>>
       ELSE IF ~isinstance_int(qty) \/ qty.n <= 0
       THEN /\ result' = Raise("remove_item", "ValueError")
            /\ UNCHANGED <<_stock_data, logs, fs, pc>>
       ELSE IF ~Has(_stock_data, item.s)
       THEN /\ result' = Raise("remove_item", "KeyError")
            /\ UNCHANGED <<_stock_data, logs, fs, pc>>
       ELSE /\ _stock_data' = remove_update(_stock_data, item.s, qty.n)
            /\ result' = Return("remove_item", 0, <<>>, "info")
            /\ UNCHANGED <<logs, fs, pc>>

---------------------------------------------------------------------------
(* get_qty *)

get_qty(item) ==
    /\ pc.at = "idle"
    /\ IF bad_item(item)
       THEN result' = Raise("get_qty", "ValueError")
       ELSE result' = Return("get_qty", Get(_stock_data, item.s, 0), <<>>, "none")
    /\ UNCHANGED <<_stock_data, logs, fs, pc>>

---------------------------------------------------------------------------
(* check_low_items *)

RECURSIVE low_items_inclusive(_, _)
low_items_inclusive(d, threshold) ==
    IF d = <<>> THEN <<>>
    ELSE (IF Head(d).v <= threshold THEN <<Head(d).k>> ELSE <<>>)
            \o low_items_inclusive(Tail(d), threshold)

RECURSIVE low_items(_, _)
low_items(d, threshold) ==
    IF d = <<>> THEN <<>>
    ELSE (IF Head(d).v < threshold THEN <<Head(d).k>> ELSE <<>>)
            \o low_items(Tail(d), threshold)

check_low_items(threshold) ==
    /\ pc.at = "idle"
    /\ IF ~isinstance_int(threshold) \/ threshold.n < 0
       THEN result' = Raise("check_low_items", "ValueError")
       ELSE result' = Return("check_low_items", 0,
                             low_items(_stock_data, threshold.n), "none")
    /\ UNCHANGED <<_stock_data, logs, fs, pc>>

---------------------------------------------------------------------------
(* The JSON text of a file, token by token.  json.dump writes "{", one    *)
(* "key: value" member per entry and "}"; json.load accepts exactly such  *)
(* a text (an object) or a single non-object value, and raises            *)
(* JSONDecodeError on anything else (an empty or truncated file, junk).   *)

Token(t, k, v) == [t |-> t, k |-> k, v |-> v]
LBrace == Token("lbrace", "", PyNone)
RBrace == Token("rbrace", "", PyNone)
Member(k, v) == Token("member", k, v)
Value(v) == Token("value", "", v)
Junk == Token("junk", "", PyNone)

Absent == [exists |-> FALSE, text |-> <<>>]
File(text) == [exists |-> TRUE, text |-> text]

json_dumps_drop_last(d) ==
    <<LBrace>>
        \o [i \in 1..(IF Len(d) > 1 THEN Len(d) - 1 ELSE Len(d)) |->
                Member(d[i].k, PyInt(d[i].v))]
        \o <<RBrace>>

json_dumps(d) ==
    <<LBrace>> \o [i \in 1..Len(d) |-> Member(d[i].k, PyInt(d[i].v))] \o <<RBrace>>

RECURSIVE to_dict(_, _)
to_dict(members, d) ==
    IF members = <<>> THEN d
    ELSE to_dict(Tail(members), Set(d, Head(members).k, Head(members).v))

json_load(text) ==
    IF /\ Len(text) >= 2
       /\ text[1].t = "lbrace"
       /\ text[Len(text)].t = "rbrace"
       /\ \A i \in 2..(Len(text) - 1) : text[i].t = "member"
    THEN [exc |-> "none", isdict |-> TRUE,
          data |-> to_dict(SubSeq(text, 2, Len(text) - 1), <<>>)]
    ELSE IF Len(text) = 1 /\ text[1].t = "value"
    THEN [exc |-> "none", isdict |-> FALSE, data |-> <<>>]
    ELSE [exc |-> "JSONDecodeError", isdict |-> FALSE, data |-> <<>>]

---------------------------------------------------------------------------
(* load_data *)

(* The loop over data.items(): every key json.load yields is a str, so    *)
(* the "non-string key" branch is never taken; int(v) failing with        *)
(* TypeError / ValueError skips the entry, any other exception leaves     *)
(* the loop, and only vi > 0 is kept.                                     *)
RECURSIVE clean_keep_zero(_, _)
clean_keep_zero(data, cleaned) ==
    IF data = <<>> THEN [exc |-> "none", d |-> cleaned]
    ELSE LET k == Head(data).k
             vi == int(Head(data).v)
         IN IF vi.exc \in {"TypeError", "ValueError"}
            THEN clean_keep_zero(Tail(data), cleaned)
            ELSE IF vi.exc # "none" THEN [exc |-> vi.exc, d |-> cleaned]
            ELSE IF vi.n >= 0 THEN clean_keep_zero(Tail(data), Set(cleaned, k, vi.n))
            ELSE clean_keep_zero(Tail(data), cleaned)

RECURSIVE clean(_, _)
clean(data, cleaned) ==
    IF data = <<>> THEN [exc |-> "none", d |-> cleaned]
    ELSE LET k == Head(data).k
             vi == int(Head(data).v)
         IN IF vi.exc \in {"TypeError", "ValueError"}
            THEN clean(Tail(data), cleaned)
            ELSE IF vi.exc # "none" THEN [exc |-> vi.exc, d |-> cleaned]
            ELSE IF vi.n > 0 THEN clean(Tail(data), Set(cleaned, k, vi.n))
            ELSE clean(Tail(data), cleaned)

(* the dict that "_stock_data = cleaned" installs, given the old one *)
RECURSIVE merge(_, _)
merge(old, cleaned) ==
    IF cleaned = <<>> THEN old
    ELSE merge(Set(old, Head(cleaned).k, Head(cleaned).v), Tail(cleaned))

install_merged(old, cleaned) == merge(old, cleaned)

install(old, cleaned) == cleaned

(* io_error: open() or read() raises an OSError other than                *)
(* FileNotFoundError (permissions, a directory, a bad encoding).          *)
load_data(file, io_error) ==
    /\ pc.at = "idle"
    /\ UNCHANGED <<logs, fs, pc>>
    /\ IF io_error
       THEN /\ result' = Return("load_data", 0, <<>>, "Exception")
            /\ UNCHANGED _stock_data
       ELSE IF ~fs[file].exists
       THEN /\ result' = Return("load_data", 0, <<>>, "FileNotFoundError")
            /\ UNCHANGED _stock_data
       ELSE LET parsed == json_load(fs[file].text)
                c == clean(parsed.data, <<>>)
            IN IF parsed.exc # "none"
               THEN /\ result' = Return("load_data", 0, <<>>, "JSONDecodeError")
                    /\ UNCHANGED _stock_data
               ELSE IF ~parsed.isdict \/ c.exc # "none"
               THEN /\ result' = Return("load_data", 0, <<>>, "Exception")
                    /\ UNCHANGED _stock_data
               ELSE /\ _stock_data' = install(_stock_data, c.d)
                    /\ result' = Return("load_data", 0, <<>>, "info")

---------------------------------------------------------------------------
(* save_data, one step per file-system effect: open(tmp, "w") creates or  *)
(* truncates the temporary file, json.dump writes the text piece by       *)
(* piece, os.replace renames it over the target.  Each of them can raise, *)
(* which "except Exception" logs and swallows.                            *)

tmp_file_in_place(file) == file

tmp_file(file) == file \o ".tmp"

Idle == [at |-> "idle", file |-> ""]

save_failed ==
    /\ result' = Return("save_data", 0, <<>>, "Exception")
    /\ pc' = Idle

save_open(file, ok) ==
    /\ pc.at = "idle"
    /\ UNCHANGED <<_stock_data, logs>>
    /\ IF ok
       THEN /\ fs' = [fs EXCEPT ![tmp_file(file)] = File(<<>>)]
            /\ pc' = [at |-> "dump", file |-> file]
            /\ UNCHANGED result
       ELSE /\ save_failed
            /\ UNCHANGED fs

save_dump(ok) ==
    /\ pc.at = "dump"
    /\ UNCHANGED <<_stock_data, logs>>
    /\ LET tmp == tmp_file(pc.file)
           text == json_dumps(_stock_data)
           done == Len(fs[tmp].text)
       IN IF ~ok
          THEN /\ save_failed
               /\ UNCHANGED fs
          ELSE IF done < Len(text)
          THEN /\ fs' = [fs EXCEPT ![tmp].text = Append(@, text[done + 1])]
               /\ UNCHANGED <<pc, result>>
          ELSE /\ pc' = [pc EXCEPT !.at = "replace"]
               /\ UNCHANGED <<fs, result>>

save_replace(ok) ==
    /\ pc.at = "replace"
    /\ UNCHANGED <<_stock_data, logs>>
    /\ IF ok
       THEN /\ fs' = [p \in DOMAIN fs |->
                        IF p = pc.file THEN fs[tmp_file(pc.file)]
                        ELSE IF p = tmp_file(pc.file) THEN Absent
                        ELSE fs[p]]
            /\ result' = Return("save_data", 0, <<>>, "info")
            /\ pc' = Idle
       ELSE /\ save_failed
            /\ UNCHANGED fs

(* The process dies (at any point, also in the middle of save_data) and   *)
(* is started again: memory is lost, the files stay as they are.          *)
crash ==
    /\ _stock_data' = <<>>
    /\ logs' = <<>>
    /\ pc' = Idle
    /\ result' = Return("start", 0, <<>>, "none")
    /\ UNCHANGED fs

---------------------------------------------------------------------------
(* The calls the model makes *)

Paths == {"inventory.json"}
AllPaths == Paths \cup {tmp_file(p) : p \in Paths}

Items == {"apple", "banana"}
ItemArgs == {PyStr(i) : i \in Items} \cup {PyStr(""), PyInt(7)}
QtyArgs ==
    {PyInt(n) : n \in -MaxQty..MaxQty} \cup {PyBool(TRUE), PyFloat(3), PyNone}
ThresholdArgs ==
    {PyInt(n) : n \in -1..(MaxQty + 1)} \cup {PyBool(TRUE), PyFloat(3), PyNone}

(* JSON values a file can hold for a key *)
JsonValues ==
    {PyInt(2), PyInt(0), PyInt(-1), PyFloat(5), PyFloat(1), PyStr("2"),
     PyStr("abc"), PyNone, PyBool(TRUE), PyInf}

(* files that are there when the process starts *)
StartFiles ==
    { Absent,
      File(<<Junk>>),
      File(<<Value(PyList)>>),
      File(<<LBrace, Member("banana", PyFloat(5)), Member("apple", PyInt(0)), RBrace>>),
      File(<<LBrace, Member("apple", PyInt(1)), Member("banana", PyInf), RBrace>>) }

Init ==
    /\ _stock_data = <<>>
    /\ logs = <<>>
    /\ pc = Idle
    /\ result = Return("start", 0, <<>>, "none")
    /\ \E f \in StartFiles :
          fs = [p \in AllPaths |-> IF p \in Paths THEN f ELSE Absent]

(* add_item called without a log list *)
AddItem == \E item \in ItemArgs, qty \in QtyArgs : add_item(item, qty, FALSE)
RemoveItem == \E item \in ItemArgs, qty \in QtyArgs : remove_item(item, qty)
GetQty == \E item \in ItemArgs : get_qty(item)
CheckLowItems == \E threshold \in ThresholdArgs : check_low_items(threshold)
LoadData == \E file \in Paths, io_error \in BOOLEAN : load_data(file, io_error)
SaveOpen == \E file \in Paths, ok \in BOOLEAN : save_open(file, ok)
SaveDump == \E ok \in BOOLEAN : save_dump(ok)
SaveReplace == \E ok \in BOOLEAN : save_replace(ok)
Crash == crash

(* Spec: the inventory and its file, through add, remove, load, save and  *)
(* crashes; quantities move by one or by MaxQty.                          *)
StoreItemArgs == {PyStr(i) : i \in Items} \cup {PyStr("")}
StoreQtyArgs == {PyInt(-1), PyInt(1), PyInt(MaxQty), PyNone}

StoreAddItem == \E item \in StoreItemArgs, qty \in StoreQtyArgs :
                   add_item(item, qty, FALSE)
StoreRemoveItem == \E item \in StoreItemArgs, qty \in StoreQtyArgs :
                      remove_item(item, qty)

Next ==
    \/ StoreAddItem
    \/ StoreRemoveItem
    \/ LoadData
    \/ SaveOpen
    \/ SaveDump
    \/ SaveReplace
    \/ Crash

Spec == Init /\ [][Next]_vars

---------------------------------------------------------------------------
(* MemSpec: the in-memory operations alone, from the empty inventory.     *)

MemInit ==
    /\ _stock_data = <<>>
    /\ logs = <<>>
    /\ pc = Idle
    /\ result = Return("start", 0, <<>>, "none")
    /\ fs = [p \in AllPaths |-> Absent]

MemNext ==
    \/ AddItem
    \/ RemoveItem
    \/ GetQty
    \/ CheckLowItems

MemSpec == MemInit /\ [][MemNext]_vars

---------------------------------------------------------------------------
(* LoadSpec: load_data applied to every JSON object of up to MaxEntries   *)
(* members, from every inventory the program can hold.                    *)

Entries == [k : Items, v : 1..MaxQty]
Stocks ==
    {d \in UNION {[1..n -> Entries] : n \in 0..Cardinality(Items)} :
        \A i, j \in 1..Len(d) : i # j => d[i].k # d[j].k}

Members == {Member(k, v) : k \in Items, v \in JsonValues}
ObjectTexts ==
    {<<LBrace>> \o m \o <<RBrace>> :
        m \in UNION {[1..n -> Members] : n \in 0..MaxEntries}}

LoadInit ==
    /\ _stock_data \in Stocks
    /\ logs = <<>>
    /\ pc = Idle
    /\ result = Return("start", 0, <<>>, "none")
    /\ \E text \in ObjectTexts :
          fs = [p \in AllPaths |-> IF p \in Paths THEN File(text) ELSE Absent]

LoadNext == LoadData

LoadSpec == LoadInit /\ [][LoadNext]_vars

---------------------------------------------------------------------------
(* LogSpec: the whole program again, on one item and few quantities, with *)
(* add_item called both with and without the caller's log list.           *)

LogItemArgs == {PyStr("apple"), PyStr("")}
LogQtyArgs == {PyInt(1), PyInt(-1), PyNone}
LogStartFiles == {Absent, File(<<LBrace, Member("apple", PyInt(2)), RBrace>>)}

LogInit ==
    /\ _stock_data = <<>>
    /\ logs = <<>>
    /\ pc = Idle
    /\ result = Return("start", 0, <<>>, "none")
    /\ \E f \in LogStartFiles :
          fs = [p \in AllPaths |-> IF p \in Paths THEN f ELSE Absent]

LogAddItem == \E item \in LogItemArgs, qty \in LogQtyArgs, with_logs \in BOOLEAN :
                 add_item(item, qty, with_logs)
LogRemoveItem == \E item \in LogItemArgs, qty \in LogQtyArgs : remove_item(item, qty)
LogGetQty == \E item \in LogItemArgs : get_qty(item)
LogCheckLowItems == \E threshold \in LogQtyArgs : check_low_items(threshold)

LogNext ==
    \/ LogAddItem
    \/ LogRemoveItem
    \/ LogGetQty
    \/ LogCheckLowItems
    \/ LoadData
    \/ SaveOpen
    \/ SaveDump
    \/ SaveReplace
    \/ Crash

LogSpec == LogInit /\ [][LogNext]_vars

---------------------------------------------------------------------------
(* Properties *)

Target == CHOOSE p \in Paths : TRUE
AsMap(d) == [k \in Keys(d) |-> Get(d, k, 0)]
Range(q) == {q[i] : i \in 1..Len(q)}
ValidQty(qty) == isinstance_int(qty)
OthersKept(item) ==
    \A o \in (Keys(_stock_data) \cup Keys(_stock_data')) \ {item} :
        /\ Has(_stock_data', o) <=> Has(_stock_data, o)
        /\ Get(_stock_data', o, 0) = Get(_stock_data, o, 0)

(* the value the JSON text gives key k: that of its last member for k *)
MembersOf(text, k) == {i \in 1..Len(text) : text[i].t = "member" /\ text[i].k = k}
FileHas(text, k) == MembersOf(text, k) # {}
FileValue(text, k) ==
    text[CHOOSE i \in MembersOf(text, k) : \A j \in MembersOf(text, k) : j <= i].v
Coerces(v) == int(v).exc = "none" /\ int(v).n > 0

(* C1: every quantity stored in the inventory mapping is an integer >= 1, *)
(* in every state reachable by add, remove, load and save calls,          *)
(* failing ones included.                                                 *)
C1_QuantitiesPositive ==
    \A i \in 1..Len(_stock_data) :
        _stock_data[i].v \in Int /\ _stock_data[i].v >= 1

(* a load that dropped a non-positive entry and kept a positive one *)
C1_Witness ==
    /\ result.op = "load_data" /\ result.logged = "info"
    /\ _stock_data # <<>>
    /\ \E k \in Items :
          /\ FileHas(fs[Target].text, k)
          /\ int(FileValue(fs[Target].text, k)).exc = "none"
          /\ int(FileValue(fs[Target].text, k)).n <= 0

(* C2: after a load that found the file missing, malformed or unreadable  *)
(* the in-memory inventory is empty, whatever it held before.             *)
C2_FailedLoadEmpties ==
    (/\ result.op = "load_data"
     /\ result.logged \in {"FileNotFoundError", "JSONDecodeError", "Exception"})
        => _stock_data = <<>>

C4_NoPartialWrite ==
    [][\A p \in Paths :
          \/ fs'[p] = fs[p]
          \/ fs'[p] = File(json_dumps(_stock_data))]_vars

(* the temporary file holds a partial text while the target still has its *)
(* previous contents                                                      *)
C4_Witness ==
    /\ pc.at = "dump"
    /\ fs[Target].exists
    /\ Len(fs[tmp_file(Target)].text) >= 1
    /\ Len(fs[tmp_file(Target)].text) < Len(json_dumps(_stock_data))

(* C5: add(item, qty) with a valid item and an integer qty: with          *)
(* total = current (0 if absent) + qty, the item is absent and reads 0    *)
(* when total <= 0, reads total otherwise; no other item changes.         *)
C5_AddTotal ==
    [][\A item \in Items, qty \in QtyArgs, with_logs \in BOOLEAN :
          (ValidQty(qty) /\ add_item(PyStr(item), qty, with_logs))
              => LET total == Get(_stock_data, item, 0) + qty.n
                 IN /\ IF total <= 0
                       THEN /\ ~Has(_stock_data', item)
                            /\ Get(_stock_data', item, 0) = 0
                       ELSE Get(_stock_data', item, 0) = total
                    /\ OthersKept(item)]_vars

(* an add brought the total to zero or below: nothing is stored *)
C5_Witness ==
    /\ result.op = "add_item" /\ result.exc = "none"
    /\ logs = <<>>
    /\ _stock_data = <<>>

(* C6: remove(item, qty) of a present item with quantity c and a positive *)
(* integer qty deletes the item when c <= qty and leaves it with c - qty  *)
(* otherwise; no other item changes.                                      *)
C6_Remove ==
    [][\A item \in Items, qty \in QtyArgs :
          (/\ Has(_stock_data, item)
           /\ ValidQty(qty) /\ qty.n > 0
           /\ remove_item(PyStr(item), qty))
              => LET c == Get(_stock_data, item, 0)
                 IN /\ IF c <= qty.n
                       THEN ~Has(_stock_data', item)
                       ELSE /\ Has(_stock_data', item)
                            /\ Get(_stock_data', item, 0) = c - qty.n
                    /\ result'.exc = "none"
                    /\ OthersKept(item)]_vars

(* a remove that left an item with part of its quantity *)
C6_Witness ==
    /\ result.op = "remove_item" /\ result.exc = "none"
    /\ Len(_stock_data) = 2
    /\ \E i \in 1..2 : _stock_data[i].v < MaxQty

(* C7: a successful load replaces the whole mapping: afterwards it holds  *)
(* exactly the file's entries whose value coerces to a positive integer,  *)
(* with that integer; nothing else from the file or from memory survives. *)
C7_LoadReplaces ==
    [][\A file \in Paths :
          (load_data(file, FALSE) /\ result'.logged = "info")
              => \A k \in Items \cup Keys(_stock_data) \cup Keys(_stock_data') :
                    LET text == fs[file].text
                    IN /\ Has(_stock_data', k)
                            <=> (FileHas(text, k) /\ Coerces(FileValue(text, k)))
                       /\ Has(_stock_data', k)
                            => Get(_stock_data', k, 0) = int(FileValue(text, k)).n]_vars

(* a load kept one entry of a file whose other entry does not coerce *)
C7_Witness ==
    /\ result.op = "load_data" /\ result.logged = "info"
    /\ Len(_stock_data) = 1
    /\ \E k \in Items :
          /\ FileHas(fs[Target].text, k)
          /\ int(FileValue(fs[Target].text, k)).exc # "none"

(* C8: lowStock(threshold) with a non-negative integer threshold returns  *)
(* exactly the items whose quantity is < threshold (none for 0 and 1); a  *)
(* negative or non-integer threshold fails.                               *)
C8_LowStock ==
    [][\A threshold \in ThresholdArgs :
          check_low_items(threshold)
              => IF isinstance_int(threshold) /\ threshold.n >= 0
                 THEN /\ result'.exc = "none"
                      /\ Range(result'.names) =
                            {k \in Keys(_stock_data) :
                                Get(_stock_data, k, 0) < threshold.n}
                      /\ Len(result'.names) = Cardinality(Range(result'.names))
                      /\ threshold.n <= 1 => result'.names = <<>>
                 ELSE /\ result'.exc = "ValueError"
                      /\ result'.names = <<>>]_vars

(* lowStock returned one of two items: the other is at the threshold or   *)
(* above                                                                  *)
C8_Witness ==
    /\ result.op = "check_low_items" /\ result.exc = "none"
    /\ Len(_stock_data) = 2
    /\ Len(result.names) = 1

(* C9: a rejected add, remove or get raises to its caller and leaves the  *)
(* mapping as it was: ValueError for a bad item, a non-integer qty and,   *)
(* for remove, a non-positive qty; KeyError for remove of an absent item  *)
(* with a valid qty; the arguments are validated before the lookup.       *)
C9_Rejected ==
    [][\A item \in ItemArgs, qty \in QtyArgs :
          /\ (add_item(item, qty, FALSE) /\ (bad_item(item) \/ ~ValidQty(qty)))
                => (result'.exc = "ValueError" /\ _stock_data' = _stock_data)
          /\ (remove_item(item, qty)
                    /\ (bad_item(item) \/ ~ValidQty(qty) \/ qty.n <= 0))
                => (result'.exc = "ValueError" /\ _stock_data' = _stock_data)
          /\ (remove_item(item, qty)
                    /\ ~bad_item(item) /\ ValidQty(qty) /\ qty.n > 0
                    /\ ~Has(_stock_data, item.s))
                => (result'.exc = "KeyError" /\ _stock_data' = _stock_data)
          /\ (get_qty(item) /\ bad_item(item))
                => (result'.exc = "ValueError" /\ _stock_data' = _stock_data)]_vars

(* a remove was rejected with KeyError on a non-empty inventory *)
C9_Witness ==
    /\ result.op = "remove_item" /\ result.exc = "KeyError"
    /\ _stock_data # <<>>

(* C10: with a log list supplied, a successful add appends exactly one    *)
(* entry after the earlier ones, a rejected add appends nothing, and      *)
(* remove, get, lowStock, load and save leave the log alone.              *)
C10_Log ==
    [][/\ \A item \in LogItemArgs, qty \in LogQtyArgs :
             add_item(item, qty, TRUE)
                => IF ~bad_item(item) /\ ValidQty(qty)
                   THEN /\ Len(logs') = Len(logs) + 1
                        /\ SubSeq(logs', 1, Len(logs)) = logs
                   ELSE logs' = logs
       /\ (\/ LogRemoveItem \/ LogGetQty \/ LogCheckLowItems \/ LoadData
           \/ SaveOpen \/ SaveDump \/ SaveReplace)
                => logs' = logs]_vars

(* the log is full after adds that left the inventory empty *)
C10_Witness ==
    /\ result.op = "add_item" /\ result.exc = "none"
    /\ Len(logs) = MaxLog
    /\ _stock_data = <<>>

====
